---- MODULE Spec2Model ----
(***************************************************************************)
(* Trade surveillance and copy-decision core of the Polymarket copy        *)
(* trading bot: TradeListener (data_listener.py) polls the trade feed and  *)
(* hands new trades, oldest first, to CopyTrader.execute_copy_trade        *)
(* (copy_trader.py), which filters, sizes, prices and submits one order.   *)
(*                                                                         *)
(* A trade is a Python dict: here a record whose DOMAIN is the set of keys *)
(* the feed delivered, so a missing key is a key outside DOMAIN.           *)
(* Decimal numbers are exact rationals <<numerator, denominator>>.         *)
(***************************************************************************)
EXTENDS Integers, Sequences, FiniteSets, TLC

(***************************************************************************)
(* Bounds of the model.                                                    *)
(***************************************************************************)
\* longest feed answer that is enumerated (the request asks for limit=10)
MaxFeed == 2
\* number of poll cycles that are explored
MaxPolls == 3
\* number of trades the target makes after the startup
MaxMade == 2
\* number of seconds the clock advances after the startup
MaxTicks == 2

(***************************************************************************)
(* Exact rational arithmetic, <<n, d>> with d > 0 in lowest terms.         *)
(***************************************************************************)
Abs(x) == IF x < 0 THEN -x ELSE x

RECURSIVE GCD(_, _)
GCD(a, b) == IF b = 0 THEN a ELSE GCD(b, a % b)

Rat(n, d) ==
    LET s == IF d < 0 THEN -1 ELSE 1
        g == GCD(Abs(n), Abs(d))
    IN  <<(s * n) \div g, (s * d) \div g>>

Zero == <<0, 1>>
One == <<1, 1>>

RAdd(a, b) == Rat(a[1] * b[2] + b[1] * a[2], a[2] * b[2])
RSub(a, b) == Rat(a[1] * b[2] - b[1] * a[2], a[2] * b[2])
RMul(a, b) == Rat(a[1] * b[1], a[2] * b[2])
\* defined for b # Zero only; the caller raises ZeroDivisionError before
RDiv(a, b) == Rat(a[1] * b[2], a[2] * b[1])
RLt(a, b) == a[1] * b[2] < b[1] * a[2]
RLe(a, b) == a[1] * b[2] <= b[1] * a[2]
RMin(a, b) == IF RLt(b, a) THEN b ELSE a
RMax(a, b) == IF RLt(a, b) THEN b ELSE a

\* Python's round(x, 4): nearest multiple of 1/10000, a tie goes to the
\* even neighbour.
Round4(x) ==
    LET n == x[1] * 10000
        q == n \div x[2]
        r == n % x[2]
        up == \/ 2 * r > x[2]
              \/ 2 * r = x[2] /\ q % 2 = 1
    IN  Rat(IF up THEN q + 1 ELSE q, 10000)

(***************************************************************************)
(* dict access                                                             *)
(***************************************************************************)
\* dict.get(key, default)
Get(trade, key, default) ==
    IF key \in DOMAIN trade THEN trade[key] ELSE default

\* dict[key] raises KeyError when the key is missing
HasKey(trade, key) == key \in DOMAIN trade

(***************************************************************************)
(* config.py: the copy logic and risk management settings.                 *)
(***************************************************************************)
DefaultConfig ==
    [ALLOCATION_PERCENT |-> Rat(15, 100),
     MAX_TRADE_USDC |-> Rat(4, 1),
     MIN_TRADE_USDC |-> Zero,
     SLIPPAGE_TOLERANCE_PERCENT |-> Zero,
     MIN_TRADE_SIZE |-> Rat(5, 1)]

(***************************************************************************)
(* CopyTrader._apply_filters                                               *)
(***************************************************************************)
\* '4h' in slug: the substring test on the slug's characters
Contains4h(slug) ==
    \E i \in 1..(Len(slug) - 1) : slug[i] = "4" /\ slug[i + 1] = "h"

\* the filter without the check of the slug
FilterReasonNoSlugCheck(original_trade, config) ==
    IF \/ ~HasKey(original_trade, "size")
       \/ original_trade["size"] = Zero
    THEN "zero_size"
    ELSE IF RLt(RMul(Get(original_trade, "size", Zero),
                     Get(original_trade, "price", Zero)),
                config.MIN_TRADE_USDC)
         THEN "below_min"
         ELSE "pass"

\* The first check that rejects the trade, "pass" when none does.
FilterReason(original_trade, config) ==
    IF \/ ~HasKey(original_trade, "size")
       \/ original_trade["size"] = Zero
    THEN "zero_size"
    ELSE LET trade_amount_usdc ==
                 RMul(Get(original_trade, "size", Zero),
                      Get(original_trade, "price", Zero))
         IN  IF RLt(trade_amount_usdc, config.MIN_TRADE_USDC)
             THEN "below_min"
             ELSE IF /\ HasKey(original_trade, "slug")
                     /\ original_trade["slug"] # <<>>
                     /\ Contains4h(original_trade["slug"])
                  THEN "4h_market"
                  ELSE "pass"

ApplyFilters(original_trade, config) ==
    FilterReason(original_trade, config) = "pass"

(***************************************************************************)
(* CopyTrader.execute_copy_trade                                           *)
(***************************************************************************)
\* What the order gateway (ClobClient) does with one order.
GatewayOutcomes ==
    {"create_order_raises", "post_order_raises", "success", "failure"}

\* the allocation share without the cap
CopiedAmountUsdcNoCap(original_price, original_size, config) ==
    RMul(RMul(original_price, original_size), config.ALLOCATION_PERCENT)

\* copied_amount_usdc: the allocation share of the original amount, capped
CopiedAmountUsdc(original_price, original_size, config) ==
    LET original_amount_usdc == RMul(original_price, original_size)
        copied_amount_usdc ==
            RMul(original_amount_usdc, config.ALLOCATION_PERCENT)
    IN  RMin(copied_amount_usdc, config.MAX_TRADE_USDC)

\* the amount in shares without the minimum size
CopiedSizeTokensNoFloor(copied_amount_usdc, original_price, config) ==
    RDiv(copied_amount_usdc, original_price)

\* copied_size_tokens: the amount in shares, raised to the minimum size
CopiedSizeTokens(copied_amount_usdc, original_price, config) ==
    RMax(RDiv(copied_amount_usdc, original_price), config.MIN_TRADE_SIZE)

\* the sides swapped
CopySideInverted(original_side) ==
    IF original_side = "BUY" THEN "SELL" ELSE "BUY"

\* copy_side = BUY if original_side == 'BUY' else SELL
CopySide(original_side) ==
    IF original_side = "BUY" THEN "BUY" ELSE "SELL"

\* the price moved by the slippage tolerance and not rounded
OrderPriceNotRounded(copy_side, original_price, config) ==
    IF copy_side = "BUY"
    THEN RMul(original_price, RAdd(One, config.SLIPPAGE_TOLERANCE_PERCENT))
    ELSE RMul(original_price, RSub(One, config.SLIPPAGE_TOLERANCE_PERCENT))

\* the two branches swapped: a BUY priced down, a SELL priced up
OrderPriceSwapped(copy_side, original_price, config) ==
    IF copy_side = "BUY"
    THEN Round4(RMul(original_price,
                     RSub(One, config.SLIPPAGE_TOLERANCE_PERCENT)))
    ELSE Round4(RMul(original_price,
                     RAdd(One, config.SLIPPAGE_TOLERANCE_PERCENT)))

\* order_price: the original price moved by the slippage tolerance
OrderPrice(copy_side, original_price, config) ==
    IF copy_side = "BUY"
    THEN Round4(RMul(original_price,
                     RAdd(One, config.SLIPPAGE_TOLERANCE_PERCENT)))
    ELSE Round4(RMul(original_price,
                     RSub(One, config.SLIPPAGE_TOLERANCE_PERCENT)))

\* The result of one call: how it ended, whether an exception left the
\* call, the OrderArgs handed to create_order (none or one), whether
\* post_order was called, and copied_amount_usdc when it was computed.
Result(outcome, raised, order_args, posted, copied) ==
    [outcome |-> outcome, raised |-> raised, order_args |-> order_args,
     posted |-> posted, copied_amount_usdc |-> copied]

\* The try block: create_order, post_order, and except Exception.
SubmitOrder(order_args, gateway, copied) ==
    CASE gateway = "create_order_raises" ->
             Result("gateway_exception", FALSE, <<order_args>>, FALSE, copied)
      [] gateway = "post_order_raises" ->
             Result("gateway_exception", FALSE, <<order_args>>, TRUE, copied)
      [] gateway = "success" ->
             Result("success", FALSE, <<order_args>>, TRUE, copied)
      [] OTHER ->
             Result("failure", FALSE, <<order_args>>, TRUE, copied)

ExecuteCopyTrade(original_trade, config, gateway) ==
    IF ~ApplyFilters(original_trade, config)
    THEN Result("filtered", FALSE, <<>>, FALSE, <<>>)
    ELSE IF \/ ~HasKey(original_trade, "price")
            \/ ~HasKey(original_trade, "side")
            \/ ~HasKey(original_trade, "asset")
            \/ ~HasKey(original_trade, "conditionId")
    THEN Result("KeyError", TRUE, <<>>, FALSE, <<>>)
    ELSE
    LET original_price == original_trade["price"]
        original_side == original_trade["side"]
        original_size == Get(original_trade, "size", Zero)
        token_id == original_trade["asset"]
        copied_amount_usdc ==
            CopiedAmountUsdc(original_price, original_size, config)
    IN  IF RLt(copied_amount_usdc, config.MIN_TRADE_USDC)
        THEN Result("too_small", FALSE, <<>>, FALSE, <<copied_amount_usdc>>)
        ELSE IF original_price = Zero
        THEN Result("ZeroDivisionError", TRUE, <<>>, FALSE,
                    <<copied_amount_usdc>>)
        ELSE
        LET copied_size_tokens ==
                CopiedSizeTokens(copied_amount_usdc, original_price, config)
            copy_side == CopySide(original_side)
            order_price == OrderPrice(copy_side, original_price, config)
            order_args == [token_id |-> token_id, price |-> order_price,
                           size |-> copied_size_tokens, side |-> copy_side]
        IN  SubmitOrder(order_args, gateway, <<copied_amount_usdc>>)

(***************************************************************************)
(* TradeListener._fetch_new_trades                                         *)
(***************************************************************************)
\* trade.get("timestamp", 0)
TradeTs(trade) == Get(trade, "timestamp", 0)

\* The for loop with its break: the trades before the first one that is
\* not newer than the mark, in feed order.
RECURSIVE ScanTrades(_, _, _)
ScanTrades(trades, i, last_ts) ==
    IF i > Len(trades)
    THEN <<>>
    ELSE IF TradeTs(trades[i]) > last_ts
         THEN <<trades[i]>> \o ScanTrades(trades, i + 1, last_ts)
         ELSE <<>>

\* list.reverse()
Reverse(s) == [i \in 1..Len(s) |-> s[Len(s) + 1 - i]]

\* What requests.get / raise_for_status give when the request fails: a
\* transport error, a timeout, a bad status (4xx or 5xx).
FetchErrors == {"ConnectionError", "Timeout", "HTTPError"}

\* a handler that catches the transport error only
ExceptConnectionErrorOnly(error) == error = "ConnectionError"

\* except requests.exceptions.RequestException: the three are subclasses
ExceptRequestException(error) ==
    error \in {"ConnectionError", "Timeout", "HTTPError"}

\* the scan without list.reverse()
FetchNewTradesNotReversed(response, last_ts) ==
    IF response.status \in FetchErrors
    THEN <<>>
    ELSE ScanTrades(response.body, 1, last_ts)

\* the fetched list handed on as it is, without the comparison to the mark
FetchNewTradesNoFilter(response, last_ts) ==
    IF response.status \in FetchErrors
    THEN <<>>
    ELSE Reverse(response.body)

\* The value _fetch_new_trades returns for a response: [] when the request
\* raised (and the exception was caught), the new trades oldest first
\* otherwise.
FetchNewTrades(response, last_ts) ==
    IF response.status \in FetchErrors
    THEN <<>>
    ELSE Reverse(ScanTrades(response.body, 1, last_ts))

\* the timestamp of the first trade of the batch instead of the last
UpdatedTimestampFirst(batch, last_ts) ==
    Get(batch[1], "timestamp", last_ts)

\* line 66: the timestamp of the last trade of the batch
UpdatedTimestamp(batch, last_ts) ==
    Get(batch[Len(batch)], "timestamp", last_ts)

\* a mark that starts at 0 instead of the clock
InitialTimestampZero(now) == 0

\* __init__: self.last_trade_timestamp = int(time.time())
InitialTimestamp(now) == now

(***************************************************************************)
(* The inputs: the clock at startup, the trades the feed can deliver and   *)
(* the answers of the feed.                                                *)
(***************************************************************************)
\* the clock at startup
StartTimes == {1, 2}

\* the timestamps of the feed's trades: before, at and after startup
Timestamps == 2..4

\* a well-formed trade, without its timestamp
GoodTrade ==
    [size |-> Rat(100, 1), price |-> Rat(1, 5), side |-> "BUY",
     asset |-> "token", conditionId |-> "cond"]

\* a record without a price
NoPriceTrade ==
    [size |-> Rat(100, 1), side |-> "SELL",
     asset |-> "token", conditionId |-> "cond"]

FeedTemplates == {GoodTrade, NoPriceTrade}

\* every template with every timestamp, and one trade without a timestamp
FeedTrades ==
    {GoodTrade} \cup
    {[timestamp |-> ts] @@ t : ts \in Timestamps, t \in FeedTemplates}

RECURSIVE SeqsUpTo(_, _)
SeqsUpTo(S, n) ==
    IF n = 0
    THEN {<<>>}
    ELSE LET shorter == SeqsUpTo(S, n - 1)
         IN  shorter \cup {Append(s, x) : s \in shorter, x \in S}

Responses ==
    {[status |-> e, body |-> <<>>] : e \in FetchErrors} \cup
    {[status |-> "ok", body |-> b] : b \in SeqsUpTo(FeedTrades, MaxFeed)}

(***************************************************************************)
(* The state.                                                              *)
(***************************************************************************)
VARIABLES
    startTime,             \* int(time.time()) at construction
    config,                \* the settings of config.py
    last_trade_timestamp,  \* TradeListener.last_trade_timestamp
    pc,                    \* where run_polling_loop stands
    polls,                 \* number of _fetch_new_trades calls so far
    fetch,                 \* how the last fetch ended: "none", "ok", an error
    feed,                  \* the list of trades the last fetch decoded
    new_trades,            \* the batch of the current cycle
    idx,                   \* position of the for loop in new_trades
    calls,                 \* the callback calls of this cycle: trade, result
    handed,                \* every trade ever handed to the callback
    repoll,                \* the last fetch followed a completed cycle whose
                           \* fetch succeeded, and decoded the same list
    made,                  \* the target's trades at the exchange, oldest first
    now                    \* time.time(), in seconds

vars == <<startTime, config, last_trade_timestamp, pc, polls, fetch, feed,
          new_trades, idx, calls, handed, repoll, made, now>>

SpecConfigs == {DefaultConfig}

Init ==
    /\ startTime \in StartTimes
    /\ config \in SpecConfigs
    /\ last_trade_timestamp = InitialTimestamp(startTime)
    /\ pc = "fetch"
    /\ polls = 0
    /\ fetch = "none"
    /\ feed = <<>>
    /\ new_trades = <<>>
    /\ idx = 0
    /\ calls = <<>>
    /\ handed = {}
    /\ repoll = FALSE
    /\ made = <<>>
    /\ now = startTime

(***************************************************************************)
(* TradeListener.run_polling_loop                                          *)
(***************************************************************************)
\* new_trades = self._fetch_new_trades(); if new_trades: ... else sleep.
\* An exception the except clause does not catch ends run_polling_loop.
FetchFrom(responses) ==
    /\ pc = "fetch"
    /\ polls < MaxPolls
    /\ polls' = polls + 1
    /\ calls' = <<>>
    /\ \E response \in responses :
        /\ fetch' = response.status
        /\ feed' = response.body
        /\ repoll' = (fetch = "ok" /\ response.status = "ok"
                                  /\ response.body = feed)
        /\ IF /\ response.status \in FetchErrors
              /\ ~ExceptRequestException(response.status)
           THEN pc' = "crashed" /\ idx' = 0 /\ new_trades' = <<>>
           ELSE /\ new_trades' =
                       FetchNewTrades(response, last_trade_timestamp)
                /\ IF new_trades' # <<>>
                   THEN pc' = "callback" /\ idx' = 1
                   ELSE pc' = "sleep" /\ idx' = 0
    /\ UNCHANGED <<startTime, config, last_trade_timestamp, handed, made, now>>

\* the fetch, for any answer of the feed
Fetch == FetchFrom(Responses)

\* copy_trader_callback(trade) for the next trade of the batch; an
\* exception that leaves the call ends run_polling_loop
Callback ==
    /\ pc = "callback"
    /\ \E gateway \in GatewayOutcomes :
        LET result == ExecuteCopyTrade(new_trades[idx], config, gateway)
        IN  /\ calls' = Append(calls, [trade |-> new_trades[idx],
                                       result |-> result])
            /\ handed' = handed \cup {new_trades[idx]}
            /\ IF result.raised
               THEN pc' = "crashed" /\ idx' = idx
               ELSE IF idx < Len(new_trades)
                    THEN pc' = "callback" /\ idx' = idx + 1
                    ELSE pc' = "update" /\ idx' = idx
    /\ UNCHANGED <<startTime, config, last_trade_timestamp, polls, fetch,
                   feed, new_trades, repoll, made, now>>

\* self.last_trade_timestamp = new_trades[-1].get("timestamp", ...)
Update ==
    /\ pc = "update"
    /\ last_trade_timestamp' =
           UpdatedTimestamp(new_trades, last_trade_timestamp)
    /\ pc' = "sleep"
    /\ UNCHANGED <<startTime, config, polls, fetch, feed, new_trades, idx,
                   calls, handed, repoll, made, now>>

\* time.sleep(POLLING_INTERVAL_SECONDS), then the next iteration
Sleep ==
    /\ pc = "sleep"
    /\ pc' = "fetch"
    /\ UNCHANGED <<startTime, config, last_trade_timestamp, polls, fetch,
                   feed, new_trades, idx, calls, handed, repoll, made, now>>

Next == Fetch \/ Callback \/ Update \/ Sleep

Spec == Init /\ [][Next]_vars

(***************************************************************************)
(* The loop against the feed of one target: the target trades while the    *)
(* clock runs, and the feed answers with the target's most recent trades,  *)
(* newest first.                                                           *)
(***************************************************************************)
\* params "limit": 10
FeedLimit == 10

\* GET /trades?user=...&limit=10: the last FeedLimit trades, newest first
FeedAnswer(trades) ==
    LET n == Len(trades)
        k == IF n < FeedLimit THEN n ELSE FeedLimit
    IN  [i \in 1..k |-> trades[n + 1 - i]]

\* a trade of size 0
ZeroSizeTrade ==
    [size |-> Zero, price |-> Rat(1, 5), side |-> "BUY",
     asset |-> "token", conditionId |-> "cond"]

TargetTemplates == {GoodTrade, NoPriceTrade, ZeroSizeTrade}

\* the trades of before the startup: none, or one of the second before
OldTrades(start) ==
    {<<>>, <<[id |-> 0, timestamp |-> start - 1] @@ GoodTrade>>}

InitTarget ==
    /\ startTime \in StartTimes
    /\ config \in SpecConfigs
    /\ last_trade_timestamp = InitialTimestamp(startTime)
    /\ pc = "fetch"
    /\ polls = 0
    /\ fetch = "none"
    /\ feed = <<>>
    /\ new_trades = <<>>
    /\ idx = 0
    /\ calls = <<>>
    /\ handed = {}
    /\ repoll = FALSE
    /\ made \in OldTrades(startTime)
    /\ now = startTime

\* the trades the target made after the startup
MadeAfterStart == {i \in DOMAIN made : made[i].id >= 1}

\* The target trades: the exchange records the fill with the clock's second.
\* The loop reads the feed in the fetch only, so a trade made while a batch
\* is processed or during the sleep is a trade made before the next fetch.
TargetTrades ==
    /\ pc = "fetch"
    /\ Cardinality(MadeAfterStart) < MaxMade
    /\ \E t \in TargetTemplates :
        made' = Append(made, [id |-> Cardinality(MadeAfterStart) + 1,
                              timestamp |-> now] @@ t)
    /\ UNCHANGED <<startTime, config, last_trade_timestamp, pc, polls, fetch,
                   feed, new_trades, idx, calls, handed, repoll, now>>

\* a second passes (as for the trades: before the next fetch)
Tick ==
    /\ pc = "fetch"
    /\ now < startTime + MaxTicks
    /\ now' = now + 1
    /\ UNCHANGED <<startTime, config, last_trade_timestamp, pc, polls, fetch,
                   feed, new_trades, idx, calls, handed, repoll, made>>

\* the fetch, answered by the feed of the target or failing
FetchTarget ==
    FetchFrom({[status |-> e, body |-> <<>>] : e \in FetchErrors}
                  \cup {[status |-> "ok", body |-> FeedAnswer(made)]})

NextTarget ==
    FetchTarget \/ Callback \/ Update \/ Sleep \/ TargetTrades \/ Tick

SpecTarget == InitTarget /\ [][NextTarget]_vars

(***************************************************************************)
(* Properties of the polling loop.                                         *)
(***************************************************************************)
Range(s) == {s[i] : i \in DOMAIN s}

\* how often trade t occurs in the sequence s
Occurrences(s, t) == Cardinality({i \in DOMAIN s : s[i] = t})

\* the feed answer is sorted newest first
IsNewestFirst(trades) ==
    \A i \in 1..(Len(trades) - 1) :
        TradeTs(trades[i]) >= TradeTs(trades[i + 1])

\* last_trade_timestamp is still the mark the last poll compared with
MarkAsPolled == pc \in {"callback", "update", "crashed"} \/ new_trades = <<>>

\* C1 (Ordering): when the fetched list is sorted newest first, the poll
\* returns exactly the fetched trades whose timestamp is strictly greater
\* than the high-water mark, each as often as it was fetched and no other
\* trade, in ascending order of timestamp.
C1_Ordering ==
    (fetch = "ok" /\ MarkAsPolled /\ IsNewestFirst(feed)) =>
        /\ \A t \in Range(feed) \cup Range(new_trades) :
               Occurrences(new_trades, t) =
                   IF TradeTs(t) > last_trade_timestamp
                   THEN Occurrences(feed, t)
                   ELSE 0
        /\ \A i, j \in DOMAIN new_trades :
               i < j => TradeTs(new_trades[i]) <= TradeTs(new_trades[j])

\* a sorted answer of two trades, one older than the other, both returned
C1_Witness ==
    /\ fetch = "ok" /\ pc = "callback" /\ IsNewestFirst(feed)
    /\ Len(new_trades) = 2
    /\ TradeTs(new_trades[1]) < TradeTs(new_trades[2])

\* C2 (Idempotent re-poll): a poll that follows a completed cycle whose
\* fetch succeeded, against the same feed answer, returns no trade.
C2_IdempotentRepoll == repoll => new_trades = <<>>

\* the re-poll of a feed whose newest trade was handed over in the cycle
\* before
C2_Witness ==
    /\ repoll /\ pc = "sleep"
    /\ feed # <<>> /\ feed[1] \in handed
    /\ TradeTs(feed[1]) = last_trade_timestamp
    /\ last_trade_timestamp > startTime

\* C3: the high-water mark never decreases, in any step of the loop and for
\* any feed answer, sorted or not.
C3_MarkMonotone ==
    [][last_trade_timestamp' >= last_trade_timestamp]_vars

\* the mark was advanced by a batch taken from an answer that is not sorted
C3_Witness ==
    /\ pc = "sleep" /\ new_trades # <<>> /\ ~IsNewestFirst(feed)
    /\ last_trade_timestamp > startTime
    /\ polls >= 2

\* C4 (No replay of history): the mark starts at the startup time, and no
\* trade with a timestamp at or before the startup time is ever handed to
\* the copy engine.
C4_NoReplay ==
    /\ last_trade_timestamp >= startTime
    /\ \A t \in handed : TradeTs(t) > startTime

\* a trade was handed over from an answer that also held a trade from
\* before the startup
C4_Witness ==
    /\ handed # {}
    /\ \E i \in DOMAIN feed : TradeTs(feed[i]) <= startTime
    /\ new_trades # <<>>

\* C5 (Feed failure): a fetch that fails yields no trade, calls the copy
\* engine for nothing, leaves the mark unchanged and goes on to the sleep,
\* from which the loop goes on to the next fetch.
C5_FeedFailure ==
    /\ [][(pc = "fetch" /\ fetch' \in FetchErrors) =>
            /\ new_trades' = <<>>
            /\ calls' = <<>>
            /\ handed' = handed
            /\ last_trade_timestamp' = last_trade_timestamp
            /\ pc' = "sleep"]_vars
    /\ [][(pc = "sleep" /\ fetch \in FetchErrors) => pc' = "fetch"]_vars

\* the loop is back at the fetch after a failed fetch of a later cycle
C5_Witness ==
    /\ fetch \in FetchErrors /\ pc = "fetch"
    /\ polls >= 2 /\ handed # {}

\* some call of this cycle ended in the gateway raising
GatewayRaisedInBatch ==
    \E i \in DOMAIN calls : calls[i].result.outcome = "gateway_exception"

\* C6 (Failure isolation): when the gateway raises for one trade of a
\* batch, the exception does not leave execute_copy_trade, the trades of
\* the batch are evaluated in order, and once the loop is through with the
\* batch every trade of it was evaluated and the mark is the timestamp of
\* the last one.
C6_FailureIsolation ==
    GatewayRaisedInBatch =>
        /\ \A i \in DOMAIN calls :
               /\ calls[i].trade = new_trades[i]
               /\ calls[i].result.outcome = "gateway_exception"
                      => ~calls[i].result.raised
        /\ pc \notin {"callback", "update"} =>
               /\ Len(calls) = Len(new_trades)
               /\ last_trade_timestamp =
                      TradeTs(new_trades[Len(new_trades)])

\* C7: no exception leaves execute_copy_trade, whatever record the feed
\* delivers, so run_polling_loop never ends.
C7_NothingEscapes ==
    /\ pc # "crashed"
    /\ \A i \in DOMAIN calls : ~calls[i].result.raised

(***************************************************************************)
(* execute_copy_trade on its own: one call, for every configuration and    *)
(* every trade record of the sets below.                                   *)
(***************************************************************************)
\* a dict with the key, one for each value, and the dict without it
Optional(key, values) == {<<>>} \cup {key :> v : v \in values}

\* prices: 0, three on the 4-decimal grid, one with five decimals
EnginePrices == {Zero, Rat(1, 5), Rat(1, 2), Rat(9, 10), Rat(13, 100000)}

EngineSizes == {Zero, One, Rat(100, 1)}

\* slugs: empty, without the marker, with it, with its letters apart
EngineSlugs ==
    {<<>>, <<"b", "t", "c">>, <<"b", "-", "4", "h">>, <<"4", "-", "h">>}

EngineTrades ==
    {p @@ sz @@ sd @@ a @@ c @@ sl :
        p \in Optional("price", EnginePrices),
        sz \in Optional("size", EngineSizes),
        sd \in Optional("side", {"BUY", "SELL"}),
        a \in Optional("asset", {"token"}),
        c \in Optional("conditionId", {"cond"}),
        sl \in Optional("slug", EngineSlugs)}

EngineConfigs ==
    [ALLOCATION_PERCENT : {Rat(15, 100), One},
     MAX_TRADE_USDC : {Rat(4, 1), Rat(1, 2)},
     MIN_TRADE_USDC : {Zero, One, Rat(5, 1)},
     SLIPPAGE_TOLERANCE_PERCENT : {Zero, Rat(1, 50)},
     MIN_TRADE_SIZE : {Rat(5, 1), One}]

InitEngine ==
    /\ startTime \in StartTimes
    /\ config \in EngineConfigs
    /\ last_trade_timestamp = InitialTimestamp(startTime)
    /\ pc = "engine"
    /\ polls = 0
    /\ fetch = "none"
    /\ feed = <<>>
    /\ new_trades = <<>>
    /\ idx = 0
    /\ calls = <<>>
    /\ handed = {}
    /\ repoll = FALSE
    /\ made = <<>>
    /\ now = startTime

\* copy_trader.execute_copy_trade(original_trade), called once
Evaluate ==
    /\ pc = "engine"
    /\ \E original_trade \in EngineTrades, gateway \in GatewayOutcomes :
        LET result == ExecuteCopyTrade(original_trade, config, gateway)
        IN  /\ calls' = <<[trade |-> original_trade, result |-> result]>>
            /\ handed' = {original_trade}
            /\ pc' = IF result.raised THEN "crashed" ELSE "evaluated"
    /\ UNCHANGED <<startTime, config, last_trade_timestamp, polls, fetch,
                   feed, new_trades, idx, repoll, made, now>>

NextEngine == Evaluate

SpecEngine == InitEngine /\ [][NextEngine]_vars

(***************************************************************************)
(* Properties of execute_copy_trade.                                       *)
(***************************************************************************)
\* the calls that handed an order to the gateway
Submitted == {i \in DOMAIN calls : calls[i].result.order_args # <<>>}

\* C8 (Side mirroring): an order submitted for a trade whose side is BUY or
\* SELL has the side of the trade.
C8_SideMirroring ==
    \A i \in Submitted :
        LET original_trade == calls[i].trade
            order == calls[i].result.order_args[1]
        IN  (/\ HasKey(original_trade, "side")
             /\ original_trade["side"] \in {"BUY", "SELL"})
                => order.side = original_trade["side"]

\* a SELL trade whose order was handed to the gateway as SELL
C8_Witness ==
    /\ pc = "evaluated"
    /\ \E i \in Submitted :
        /\ calls[i].trade["side"] = "SELL"
        /\ calls[i].result.order_args[1].side = "SELL"
        /\ calls[i].result.posted

C10_EligibilityGates ==
    \A i \in Submitted :
        LET original_trade == calls[i].trade
        IN  /\ "size" \in DOMAIN original_trade
            /\ original_trade["size"] # Zero
            /\ "price" \in DOMAIN original_trade
            /\ ~RLt(RMul(original_trade["price"], original_trade["size"]),
                    config.MIN_TRADE_USDC)
            /\ "slug" \in DOMAIN original_trade =>
                   \A k \in 1..(Len(original_trade["slug"]) - 1) :
                       ~(/\ original_trade["slug"][k] = "4"
                         /\ original_trade["slug"][k + 1] = "h")

\* an order for a trade that carries a slug without the marker, under a
\* minimum trade value above 0
C10_Witness ==
    /\ pc = "evaluated"
    /\ config.MIN_TRADE_USDC = One
    /\ \E i \in Submitted :
        /\ "slug" \in DOMAIN calls[i].trade
        /\ calls[i].trade["slug"] = <<"4", "-", "h">>

\* C11 (Sizing determinism): the size of every submitted order is
\* max(min(price x size x allocation, max trade value) / price, share
\* floor), a value of the trade's price and size and of the configuration
\* alone.
C11_SizingDeterminism ==
    \A i \in Submitted :
        LET original_trade == calls[i].trade
            order == calls[i].result.order_args[1]
            amount == RMul(RMul(original_trade["price"],
                                original_trade["size"]),
                           config.ALLOCATION_PERCENT)
        IN  order.size =
                RMax(RDiv(RMin(amount, config.MAX_TRADE_USDC),
                          original_trade["price"]),
                     config.MIN_TRADE_SIZE)

\* allocation 0.15, max 4, floor 5, price 0.20, size 100: 15 shares
C11_Witness ==
    /\ pc = "evaluated"
    /\ config.ALLOCATION_PERCENT = Rat(15, 100)
    /\ config.MAX_TRADE_USDC = Rat(4, 1)
    /\ config.MIN_TRADE_SIZE = Rat(5, 1)
    /\ \E i \in Submitted :
        /\ calls[i].trade["price"] = Rat(1, 5)
        /\ calls[i].trade["size"] = Rat(100, 1)
        /\ calls[i].result.order_args[1].size = Rat(15, 1)

\* p is a multiple of 1/10000
OnGrid(p) == 10000 % p[2] = 0

\* p is a multiple of 1/10000 at most half of 1/10000 away from target
RoundedFrom(p, target) ==
    /\ OnGrid(p)
    /\ LET k == p[1] * (10000 \div p[2])
       IN  Abs(2 * k * target[2] - 20000 * target[1]) <= target[2]

\* C12 as claimed: with slippage tolerance 0 the limit price of every
\* submitted order is the original price exactly.
C12_ExactPrice ==
    \A i \in Submitted :
        config.SLIPPAGE_TOLERANCE_PERCENT = Zero =>
            calls[i].result.order_args[1].price = calls[i].trade["price"]

\* C12 as amended: with slippage tolerance 0 the limit price of every
\* submitted order is the original price rounded to 4 decimal places, for
\* BUY and SELL; it is the original price exactly when that price has at
\* most 4 decimal places.
C12_RoundedPrice ==
    \A i \in Submitted :
        LET original_price == calls[i].trade["price"]
            order == calls[i].result.order_args[1]
        IN  config.SLIPPAGE_TOLERANCE_PERCENT = Zero =>
                /\ RoundedFrom(order.price, original_price)
                /\ OnGrid(original_price) => order.price = original_price

\* a SELL at 0.20 under tolerance 0, submitted at 0.20
C12_Witness ==
    /\ pc = "evaluated"
    /\ config.SLIPPAGE_TOLERANCE_PERCENT = Zero
    /\ \E i \in Submitted :
        /\ calls[i].trade["price"] = Rat(1, 5)
        /\ calls[i].result.order_args[1].side = "SELL"
        /\ calls[i].result.order_args[1].price = Rat(1, 5)

\* C13 (Slippage pricing): the limit price of a submitted BUY order is the
\* original price x (1 + tolerance) rounded to 4 decimal places, that of a
\* submitted SELL order the original price x (1 - tolerance) rounded to 4
\* decimal places; the side is the submitted order's.
C13_SlippagePricing ==
    \A i \in Submitted :
        LET original_price == calls[i].trade["price"]
            order == calls[i].result.order_args[1]
            tolerance == config.SLIPPAGE_TOLERANCE_PERCENT
        IN  /\ order.side = "BUY" =>
                   RoundedFrom(order.price,
                               RMul(original_price, RAdd(One, tolerance)))
            /\ order.side = "SELL" =>
                   RoundedFrom(order.price,
                               RMul(original_price, RSub(One, tolerance)))
            /\ order.side \in {"BUY", "SELL"}

\* price 0.50 under tolerance 0.02: a BUY submitted at 0.51
C13_Witness ==
    /\ pc = "evaluated"
    /\ config.SLIPPAGE_TOLERANCE_PERCENT = Rat(1, 50)
    /\ \E i \in Submitted :
        /\ calls[i].trade["price"] = Rat(1, 2)
        /\ calls[i].result.order_args[1].side = "BUY"
        /\ calls[i].result.order_args[1].price = Rat(51, 100)

\* C18: a record without a size or without a price is rejected by the
\* filter: the call ends as filtered, builds no order and raises nothing.
C18_MalformedIneligible ==
    \A i \in DOMAIN calls :
        ("size" \notin DOMAIN calls[i].trade
            \/ "price" \notin DOMAIN calls[i].trade) =>
            /\ calls[i].result.outcome = "filtered"
            /\ calls[i].result.order_args = <<>>
            /\ ~calls[i].result.raised

\* C19 (Post-clamp minimum): no order is submitted for a trade whose
\* min(price x size x allocation, max trade value) is below the minimum
\* trade value; so no order is submitted at all when the max trade value
\* is below the minimum trade value.
C19_PostClampMinimum ==
    /\ \A i \in Submitted :
        LET original_trade == calls[i].trade
            amount == RMul(RMul(original_trade["price"],
                                original_trade["size"]),
                           config.ALLOCATION_PERCENT)
        IN  ~RLt(RMin(amount, config.MAX_TRADE_USDC),
                 config.MIN_TRADE_USDC)
    /\ RLt(config.MAX_TRADE_USDC, config.MIN_TRADE_USDC) => Submitted = {}

\* a trade whose allocation share reaches the minimum trade value but
\* whose capped amount does not: skipped as too small, no order
C19_Witness ==
    /\ pc = "evaluated"
    /\ RLt(config.MAX_TRADE_USDC, config.MIN_TRADE_USDC)
    /\ \E i \in DOMAIN calls :
        /\ calls[i].result.outcome = "too_small"
        /\ calls[i].result.order_args = <<>>
        /\ ~RLt(RMul(RMul(calls[i].trade["price"], calls[i].trade["size"]),
                     config.ALLOCATION_PERCENT),
                config.MIN_TRADE_USDC)

(***************************************************************************)
(* Properties of the loop against the feed of the target.                  *)
(***************************************************************************)
\* the trade a callback step hands over
HandedNow == calls'[Len(calls')].trade

MaxOf(S) == CHOOSE x \in S : \A y \in S : y <= x

\* C14 (Order of occurrence): over the whole run each trade handed to the
\* copy engine has a timestamp at or after that of every trade handed
\* before it, and a fetch follows only when every trade of the batch
\* before was processed, one call after the other.
C14_OrderOfOccurrence ==
    /\ [][Len(calls') > Len(calls) =>
            /\ \A t \in handed : TradeTs(t) <= TradeTs(HandedNow)
            /\ Len(calls') = Len(calls) + 1
            /\ HandedNow = new_trades[Len(calls')]]_vars
    /\ [][polls' # polls => Len(calls) = Len(new_trades)]_vars

\* two trades of different seconds were handed over in two cycles
C14_Witness ==
    /\ pc = "sleep" /\ polls >= 2
    /\ Len(calls) = 1
    /\ \E t \in handed : TradeTs(t) < TradeTs(calls[1].trade)

\* C15 (At most once, no retry): a trade handed to the copy engine was
\* never handed to it before, a call hands at most one order to the
\* gateway, and at every later fetch the mark is at or past every trade
\* handed so far and the batch holds none of them.
C15_AtMostOnce ==
    /\ [][Len(calls') > Len(calls) => HandedNow \notin handed]_vars
    /\ [][polls' # polls =>
            /\ \A t \in handed : TradeTs(t) <= last_trade_timestamp
            /\ \A k \in DOMAIN new_trades' : new_trades'[k] \notin handed]_vars
    /\ [](\A i \in DOMAIN calls : Len(calls[i].result.order_args) <= 1)

\* a later fetch answered with a trade that was skipped before, and did
\* not yield it again
C15_Witness ==
    /\ pc = "sleep" /\ fetch = "ok" /\ polls >= 2
    /\ new_trades = <<>>
    /\ \E k \in DOMAIN feed :
        /\ feed[k] \in handed
        /\ feed[k]["size"] = Zero

\* C16 (Every fill is replicated): when a cycle whose fetch succeeded is
\* over, every trade the target made before that fetch, in a second after
\* the second of the startup, was handed to the copy engine.
C16_EveryFillReplicated ==
    (pc = "sleep" /\ fetch = "ok") =>
        \A i \in MadeAfterStart :
            TradeTs(made[i]) > startTime => made[i] \in handed

\* C17 (Not-yet-seen trades are yielded): when a cycle whose fetch
\* succeeded is over, every trade of the fetched answer that was made in
\* a second after the second of the startup was handed to the copy
\* engine, in this cycle if not before, also a trade with the second of
\* the mark.
C17_NotYetSeenYielded ==
    (pc = "sleep" /\ fetch = "ok") =>
        \A k \in DOMAIN feed :
            (feed[k].id >= 1 /\ TradeTs(feed[k]) > startTime) =>
                feed[k] \in handed

\* C20 (Update rule of the mark): at the end of every cycle the mark is
\* the maximum of the startup time and the timestamps of all trades handed
\* over; the update step follows the last call of the batch and sets the
\* mark to the timestamp of the most recent trade of the batch; no other
\* step, the call of the copy engine included, changes the mark.
C20_MarkUpdateRule ==
    /\ [](pc \in {"sleep", "fetch"} =>
            last_trade_timestamp =
                MaxOf({startTime} \cup {TradeTs(t) : t \in handed}))
    /\ [][pc = "update" =>
            /\ Len(calls) = Len(new_trades)
            /\ last_trade_timestamp' =
                   MaxOf({TradeTs(new_trades[k]) : k \in DOMAIN new_trades})
            /\ last_trade_timestamp' = TradeTs(new_trades[Len(new_trades)])]_vars
    /\ [][pc # "update" => last_trade_timestamp' = last_trade_timestamp]_vars

\* a cycle of two trades of different seconds ended with the mark at the
\* later one
C20_Witness ==
    /\ pc = "sleep" /\ Len(new_trades) = 2 /\ Len(calls) = 2
    /\ TradeTs(new_trades[1]) < TradeTs(new_trades[2])
    /\ last_trade_timestamp = TradeTs(new_trades[2])

====
